---- MODULE Spec2Model ----
(***************************************************************************)
(* The interview phase state machine of agents/interviewer.py              *)
(* (InterviewerAgent): phases, turn counters, the exhibit release tracker, *)
(* the phase transition policy and the single entry point                  *)
(* process_candidate_message.                                              *)
(*                                                                         *)
(* Text is modelled as a sequence of one-character strings, so that the    *)
(* case-insensitive substring tests of the code are computed, not assumed. *)
(* Texts the program composes (replies, exhibit texts) are sequences of    *)
(* the string pieces they are formatted from.                              *)
(***************************************************************************)
EXTENDS Integers, Sequences, FiniteSets, TLC

VARIABLES
    case_data,             \* self.case_data: the case record (its exhibits)
    interview_mode,        \* self.interview_mode
    conversation_history,  \* self.conversation_history
    exhibits_released,     \* self.exhibits_released (0-based indices)
    current_phase,         \* self.current_phase
    turn_count,            \* self.turn_count
    phase_turns,           \* self.phase_turns
    response,              \* the dict returned by the last call
    locals,                \* the local values of the last call
    session_has_case,      \* InterviewSession.case is not None
    session_status,        \* InterviewSession.status
    session_phase,         \* InterviewSession.current_phase
    db_messages,           \* the Message rows of the session, by created_at
    connected,             \* a consumer serves the session
    interviewer,           \* the consumer's self.interviewer is set
    sent,                  \* the frames the last handler sent to the client
    peer                   \* a second consumer of the session, not running

vars == <<case_data, interview_mode, conversation_history, exhibits_released,
          current_phase, turn_count, phase_turns, response, locals,
          session_has_case, session_status, session_phase, db_messages,
          connected, interviewer, sent, peer>>

driver_vars == <<session_has_case, session_status, session_phase, db_messages,
                 connected, interviewer, sent>>

agent_state == <<conversation_history, exhibits_released, current_phase,
                 turn_count, phase_turns>>

(***************************************************************************)
(* Bounds of the model.                                                    *)
(***************************************************************************)
\* candidate turns processed in one run of Spec
MaxTurns == 3

\* candidate turns processed in one run of SpecInterview
MaxInterviewTurns == 6

\* largest number of exhibits of a case
MaxCaseExhibits == 4

\* candidate turns processed in one run of SpecProgress: one more than the
\* 13 turns of the longest interview without exhibit requests
MaxProgressTurns == 14

\* persisted messages of a session in one run of SpecSession: the opening
\* message and three candidate turns with their replies
MaxSessionLog == 7

\* persisted logs of SpecRehydrate: entries of any role at the start of a
\* log, and the (user, assistant) pairs that follow
MaxLogPrefix == 2

MaxLogPairs == 10

\* persisted messages of a session in one run of SpecReconnect: the opening
\* message and four candidate turns with their replies
MaxReconnectLog == 9

\* persisted messages of a session in one run of SpecConcurrent: the opening
\* message and three candidate turns with their replies
MaxConcurrentLog == 7

\* persisted messages of a session in one run of SpecFrames: the opening
\* message and two candidate turns with their replies
MaxFramesLog == 5

\* candidate turns processed in one run of SpecLength: one more than the
\* longest interview without exhibit requests
MaxLengthTurns == 14

\* candidate turns processed in one run of SpecTracker: the four requests of
\* a case with three exhibits and one more turn
MaxTrackerTurns == 5

(***************************************************************************)
(* Program constants.                                                      *)
(***************************************************************************)
PHASE_FRAMEWORK == "framework"

PHASE_DATA_ANALYSIS == "data_analysis"

PHASE_RECOMMENDATION == "recommendation"

PHASE_PUSHBACK == "pushback"

PHASE_CONCLUSION == "conclusion"

PHASE_COMPLETED == "completed"

MAX_EXHIBITS == 3

InterviewModes == {"interviewer_led", "candidate_led", "pm_product_case"}

(***************************************************************************)
(* Text: str.lower() and the substring test `keyword in text`.             *)
(***************************************************************************)
UpperToLower ==
    [c \in {"A","B","C","D","E","F","G","H","I","J","K","L","M",
            "N","O","P","Q","R","S","T","U","V","W","X","Y","Z"} |->
       CASE c = "A" -> "a" [] c = "B" -> "b" [] c = "C" -> "c" [] c = "D" -> "d"
         [] c = "E" -> "e" [] c = "F" -> "f" [] c = "G" -> "g" [] c = "H" -> "h"
         [] c = "I" -> "i" [] c = "J" -> "j" [] c = "K" -> "k" [] c = "L" -> "l"
         [] c = "M" -> "m" [] c = "N" -> "n" [] c = "O" -> "o" [] c = "P" -> "p"
         [] c = "Q" -> "q" [] c = "R" -> "r" [] c = "S" -> "s" [] c = "T" -> "t"
         [] c = "U" -> "u" [] c = "V" -> "v" [] c = "W" -> "w" [] c = "X" -> "x"
         [] c = "Y" -> "y" [] c = "Z" -> "z"]

lower(text) ==
    [i \in 1..Len(text) |->
       IF text[i] \in DOMAIN UpperToLower THEN UpperToLower[text[i]] ELSE text[i]]

\* keyword in text
contains(text, keyword) ==
    \E i \in 1..(Len(text) - Len(keyword) + 1) :
       \A j \in 1..Len(keyword) : text[i + j - 1] = keyword[j]

(***************************************************************************)
(* The keyword lists of the classifier and of the transition policy.        *)
(***************************************************************************)
KwExhibit ==
    <<"e","x","h","i","b","i","t">>

KwData ==
    <<"d","a","t","a">>

KwNumbers ==
    <<"n","u","m","b","e","r","s">>

KwShowMe ==
    <<"s","h","o","w"," ","m","e">>

KwCanISee ==
    <<"c","a","n"," ","i"," ","s","e","e">>

KwInformation ==
    <<"i","n","f","o","r","m","a","t","i","o","n">>

KwThoseAreMy ==
    <<"t","h","o","s","e"," ","a","r","e"," ","m","y">>

KwThatCovers ==
    <<"t","h","a","t"," ","c","o","v","e","r","s">>

KwFrameworkComplete ==
    <<"f","r","a","m","e","w","o","r","k"," ","c","o","m","p","l","e","t",
      "e">>

KwThoseAreThe ==
    <<"t","h","o","s","e"," ","a","r","e"," ","t","h","e">>

KwNowLets ==
    <<"n","o","w"," ","l","e","t","'","s">>

KwShallWe ==
    <<"s","h","a","l","l"," ","w","e">>

KwCanWeLookAt ==
    <<"c","a","n"," ","w","e"," ","l","o","o","k"," ","a","t">>

KwWhatData ==
    <<"w","h","a","t"," ","d","a","t","a">>

KwRecommend ==
    <<"r","e","c","o","m","m","e","n","d">>

KwMyRecommendation ==
    <<"m","y"," ","r","e","c","o","m","m","e","n","d","a","t","i","o","n">>

KwIThinkWeShould ==
    <<"i"," ","t","h","i","n","k"," ","w","e"," ","s","h","o","u","l","d">>

KwIWouldSuggest ==
    <<"i"," ","w","o","u","l","d"," ","s","u","g","g","e","s","t">>

KwBasedOnThis ==
    <<"b","a","s","e","d"," ","o","n"," ","t","h","i","s">>

KwInConclusion ==
    <<"i","n"," ","c","o","n","c","l","u","s","i","o","n">>

KwTherefore ==
    <<"t","h","e","r","e","f","o","r","e">>

exhibit_keywords ==
    {KwExhibit, KwData, KwNumbers, KwShowMe, KwCanISee, KwInformation}

framework_keywords ==
    {KwThoseAreMy, KwThatCovers, KwFrameworkComplete, KwThoseAreThe,
     KwNowLets, KwShallWe, KwCanWeLookAt, KwWhatData}

recommendation_keywords ==
    {KwRecommend, KwMyRecommendation, KwIThinkWeShould, KwIWouldSuggest,
     KwBasedOnThis, KwInConclusion, KwTherefore}

(***************************************************************************)
(* Candidate messages the model sends.                                     *)
(***************************************************************************)
MsgGeneric ==
    <<"I"," ","t","h","i","n","k"," ","t","h","e"," ","a","n","s","w","e",
      "r"," ","i","s"," ","X">>

MsgShowData ==
    <<"S","h","o","w"," ","m","e"," ","t","h","e"," ","D","A","T","A">>

MsgSpecExample ==
    <<"T","h","o","s","e"," ","a","r","e"," ","m","y"," ","m","a","i","n",
      " ","h","y","p","o","t","h","e","s","e","s",","," ","n","o","w"," ",
      "l","e","t","'","s"," ","l","o","o","k"," ","a","t"," ","t","h","e",
      " ","d","a","t","a">>

SuffixThatCovers ==
    <<"."," ","T","h","a","t"," ","C","o","v","e","r","s"," ","i","t">>

SuffixTherefore ==
    <<"."," ","T","h","e","r","e","f","o","r","e"," ","Y">>

MsgFramework == MsgGeneric \o SuffixThatCovers

MsgRecommend == MsgGeneric \o SuffixTherefore

Messages == {MsgGeneric, MsgShowData, MsgSpecExample, MsgFramework, MsgRecommend}

(***************************************************************************)
(* case_interview_simulator/security.py: SecurityValidator.                *)
(***************************************************************************)
\* str.isspace and str.isalnum on the characters of the model
Whitespace == {" ", "\t", "\n", "\r"}

Alphanumeric ==
    DOMAIN UpperToLower \cup {UpperToLower[c] : c \in DOMAIN UpperToLower}
       \cup {"0", "1", "2", "3", "4", "5", "6", "7", "8", "9"}

\* the part of text from position i on
From(text, i) == SubSeq(text, i, Len(text))

\* text starts with prefix at position i
starts_at(text, i, prefix) ==
    /\ i + Len(prefix) - 1 <= Len(text)
    /\ \A j \in 1..Len(prefix) : text[i + j - 1] = prefix[j]

\* str.strip()
strip(text) ==
    LET inner == {i \in 1..Len(text) : text[i] \notin Whitespace}
    IN IF inner = {} THEN <<>>
       ELSE SubSeq(text, CHOOSE i \in inner : \A j \in inner : i <= j,
                         CHOOSE i \in inner : \A j \in inner : i >= j)

\* ' '.join(text.split()): runs of whitespace become one space, none is
\* left at either end
RECURSIVE join_split(_)
join_split(text) ==
    LET t == strip(text)
    IN IF t = <<>> THEN <<>>
       ELSE LET breaks == {i \in 1..Len(t) : t[i] \in Whitespace}
            IN IF breaks = {} THEN t
               ELSE LET b == CHOOSE i \in breaks : \A j \in breaks : i <= j
                    IN SubSeq(t, 1, b - 1) \o <<" ">> \o join_split(From(t, b))

ScriptOpen == <<"<","s","c","r","i","p","t">>

ScriptClose == <<"<","/","s","c","r","i","p","t",">">>

\* re.sub(r'<script.*?</script>', '', text, flags=IGNORECASE | DOTALL)
RECURSIVE remove_scripts(_)
remove_scripts(text) ==
    LET low == lower(text)
        closes(i) == {j \in (i + Len(ScriptOpen))..Len(text) :
                         starts_at(low, j, ScriptClose)}
        opens == {i \in 1..Len(text) :
                     starts_at(low, i, ScriptOpen) /\ closes(i) # {}}
    IN IF opens = {} THEN text
       ELSE LET i == CHOOSE a \in opens : \A b \in opens : a <= b
                j == CHOOSE a \in closes(i) : \A b \in closes(i) : a <= b
            IN SubSeq(text, 1, i - 1)
                 \o remove_scripts(From(text, j + Len(ScriptClose)))

\* re.sub(r'<.*?>', '', text): '.' matches no newline
RECURSIVE remove_tags(_)
remove_tags(text) ==
    LET closes(i) == {j \in (i + 1)..Len(text) :
                         /\ text[j] = ">"
                         /\ \A k \in (i + 1)..(j - 1) : text[k] # "\n"}
        opens == {i \in 1..Len(text) : text[i] = "<" /\ closes(i) # {}}
    IN IF opens = {} THEN text
       ELSE LET i == CHOOSE a \in opens : \A b \in opens : a <= b
                j == CHOOSE a \in closes(i) : \A b \in closes(i) : a <= b
            IN SubSeq(text, 1, i - 1) \o remove_tags(From(text, j + 1))

\* SecurityValidator.sanitize_input
sanitize_input(text, max_length) ==
    IF text = <<>> THEN <<>>
    ELSE strip(join_split(remove_tags(remove_scripts(
            SubSeq(text, 1, IF Len(text) < max_length THEN Len(text)
                            ELSE max_length)))))

\* SUSPICIOUS_PATTERNS, each a sequence of pieces: a literal, "\s+", "\s*"
\* or ".*?"
Lit(chars) == [kind |-> "literal", chars |-> chars]

SomeSpace == [kind |-> "\\s+", chars |-> <<>>]

AnySpace == [kind |-> "\\s*", chars |-> <<>>]

AnyChars == [kind |-> ".*?", chars |-> <<>>]

SUSPICIOUS_PATTERNS ==
    {<<Lit(<<"i","g","n","o","r","e">>), SomeSpace,
       Lit(<<"p","r","e","v","i","o","u","s">>), SomeSpace,
       Lit(<<"i","n","s","t","r","u","c","t","i","o","n">>)>>,
     <<Lit(<<"i","g","n","o","r","e">>), SomeSpace,
       Lit(<<"a","l","l">>), SomeSpace,
       Lit(<<"i","n","s","t","r","u","c","t","i","o","n">>)>>,
     <<Lit(<<"s","y","s","t","e","m">>), AnySpace, Lit(<<":">>)>>,
     <<Lit(<<"<","|">>), AnyChars, Lit(<<"|",">">>)>>,
     <<Lit(<<"#","#","#">>), AnySpace,
       Lit(<<"i","n","s","t","r","u","c","t","i","o","n">>)>>,
     <<Lit(<<"f","o","r","g","e","t">>), SomeSpace,
       Lit(<<"e","v","e","r","y","t","h","i","n","g">>)>>,
     <<Lit(<<"y","o","u">>), SomeSpace, Lit(<<"a","r","e">>), SomeSpace,
       Lit(<<"n","o","w">>)>>,
     <<Lit(<<"n","e","w">>), SomeSpace, Lit(<<"r","o","l","e">>)>>,
     <<Lit(<<"d","i","s","r","e","g","a","r","d">>)>>,
     <<Lit(<<"o","v","e","r","r","i","d","e">>)>>}

\* the pattern matches text from position i
RECURSIVE matches_at(_, _, _)
matches_at(text, i, pattern) ==
    IF pattern = <<>> THEN TRUE
    ELSE LET piece == Head(pattern)
             run(allowed(_)) ==
                 {k \in 0..(Len(text) - i + 1) :
                     \A j \in i..(i + k - 1) : allowed(text[j])}
         IN CASE piece.kind = "literal" ->
                    /\ starts_at(text, i, piece.chars)
                    /\ matches_at(text, i + Len(piece.chars), Tail(pattern))
              [] piece.kind = "\\s+" ->
                    \E k \in run(LAMBDA c : c \in Whitespace) \ {0} :
                       matches_at(text, i + k, Tail(pattern))
              [] piece.kind = "\\s*" ->
                    \E k \in run(LAMBDA c : c \in Whitespace) :
                       matches_at(text, i + k, Tail(pattern))
              [] piece.kind = ".*?" ->
                    \E k \in run(LAMBDA c : c # "\n") :
                       matches_at(text, i + k, Tail(pattern))

\* re.search(pattern, text)
search(pattern, text) == \E i \in 1..(Len(text) + 1) : matches_at(text, i, pattern)

\* SecurityValidator.detect_prompt_injection: is_suspicious
detect_prompt_injection(text) ==
    LET text_lower == lower(text)
        special == Cardinality({i \in 1..Len(text) :
                                   /\ text[i] \notin Alphanumeric
                                   /\ text[i] \notin Whitespace})
        longest == IF Len(text) > 1 THEN Len(text) ELSE 1
    IN \/ \E pattern \in SUSPICIOUS_PATTERNS : search(pattern, text_lower)
       \/ 10 * special > 3 * longest

\* SecurityValidator.validate_message: is_valid, the sanitized message and
\* the error message
validate_message(message) ==
    IF Len(message) > 5000
    THEN [is_valid |-> FALSE, sanitized |-> <<>>,
          error |-> <<"Message too long (max 5000 characters)">>]
    ELSE IF Len(strip(message)) = 0
    THEN [is_valid |-> FALSE, sanitized |-> <<>>,
          error |-> <<"Message cannot be empty">>]
    ELSE LET sanitized == sanitize_input(message, 5000)
         IN IF detect_prompt_injection(sanitized)
            THEN [is_valid |-> FALSE, sanitized |-> <<>>,
                  error |-> <<"Message blocked: ", "<reason>">>]
            ELSE [is_valid |-> TRUE, sanitized |-> sanitized, error |-> <<>>]

(***************************************************************************)
(* The texts a client sends in the 'message' field of a frame: the         *)
(* messages of the model and texts the validator changes or rejects.       *)
(***************************************************************************)
FrameTagged ==
    <<"<","b",">","S","h","o","w"," ","m","e","<","/","b",">"," ","t","h",
      "e"," ","D","A","T","A">>

FrameMarkupOnly ==
    <<"<","b",">","<","/","b",">">>

FrameBlank ==
    <<" "," "," ">>

FrameInjection ==
    <<"P","l","e","a","s","e"," ","D","i","s","r","e","g","a","r","d"," ",
      " ","t","h","e"," ","c","a","s","e">>

FrameIgnoreAll ==
    <<"i","g","n","o","r","e"," ","a","l","l"," "," "," ","i","n","s","t",
      "r","u","c","t","i","o","n","s">>

FrameSpecialChars ==
    <<"?","!","?","!"," ","w","h","y">>

\* a text of 5001 characters
FrameTooLong == [i \in 1..5001 |-> "a"]

ClientTexts ==
    Messages \cup {FrameTagged, FrameMarkupOnly, FrameBlank, FrameInjection,
                   FrameIgnoreAll, FrameSpecialChars, FrameTooLong}

\* validate_message on each text of the model that passes the length check,
\* computed once
validated ==
    [text \in {t \in ClientTexts : Len(t) <= 5000} |-> validate_message(text)]

\* validate_message(message) as the consumer calls it
validation(message) ==
    IF Len(message) > 5000 THEN validate_message(message)
    ELSE validated[message]

(***************************************************************************)
(* any(keyword in message.lower() for keyword in keywords), and its value  *)
(* for the three keyword lists; for the messages of Messages it is         *)
(* computed once.                                                          *)
(***************************************************************************)
any_keyword_in(message, keywords) ==
    \E keyword \in keywords : contains(lower(message), keyword)

keyword_row(message) ==
    [exhibit |-> any_keyword_in(message, exhibit_keywords),
     framework |-> any_keyword_in(message, framework_keywords),
     recommendation |-> any_keyword_in(message, recommendation_keywords)]

keyword_table == [message \in Messages |-> keyword_row(message)]

keyword_matches(message) ==
    IF message \in Messages THEN keyword_table[message]
    ELSE keyword_row(message)

(***************************************************************************)
(* Cases: the exhibits of a case are values compared by content, so two    *)
(* entries of one list may be equal.                                       *)
(***************************************************************************)
ExhibitPool ==
    {[title |-> "Revenue", type |-> "table", data |-> "{revenue}"],
     [title |-> "Costs", type |-> "bar", data |-> "{costs}"]}

ExhibitLists ==
    UNION {[1..n -> ExhibitPool] : n \in 0..MaxCaseExhibits}

Cases == {[exhibits |-> e] : e \in ExhibitLists}

(***************************************************************************)
(* Fixed texts of the program.                                             *)
(***************************************************************************)
ConcludedText == <<"The interview has concluded. Please proceed to evaluation.">>

NoExhibitsText == <<"I don't have any additional exhibits for this case.">>

MaxReachedText ==
    <<"You've received all available exhibits for this interview. Please proceed with your analysis.">>

AllProvidedText == <<"All exhibits have been provided.">>

FinalExhibitSuffix ==
    <<"\n\n(This is the final exhibit. Please proceed with your analysis.)">>

FallbackText ==
    <<"That's an interesting point. Can you elaborate on your reasoning? What factors are you considering in your analysis?">>

\* response.choices[0].message.content of a successful call: text chosen by
\* the external service
GeneratedText == <<"<generated reply>">>

NoResponse == [message |-> <<>>, phase |-> PHASE_FRAMEWORK, completed |-> FALSE]

NoLocals ==
    [message |-> <<>>, phase |-> PHASE_FRAMEWORK, turns |-> 0,
     exhibit_request |-> FALSE, all_exhibits_provided |-> FALSE,
     consulted |-> FALSE, should_transition |-> FALSE,
     next_phase |-> PHASE_FRAMEWORK]

(***************************************************************************)
(* InterviewerAgent._is_exhibit_request                                    *)
(***************************************************************************)
_is_exhibit_request(message) == keyword_matches(message).exhibit

(***************************************************************************)
(* InterviewerAgent._handle_exhibit_request: the text returned, the flag   *)
(* all_exhibits_provided and the value of exhibits_released afterwards.    *)
(***************************************************************************)
\* list.index(value): the 0-based position of the first entry equal to value
index(exhibits, value) ==
    (CHOOSE i \in 1..Len(exhibits) :
        /\ exhibits[i] = value
        /\ \A j \in 1..(i - 1) : exhibits[j] # value) - 1

\* the 0-based positions i with i not in released, in list order
unreleased_positions(exhibits, released) ==
    SelectSeq([i \in 1..Len(exhibits) |-> i - 1],
              LAMBDA i : \A k \in 1..Len(released) : released[k] # i)

exhibit_text(exhibit) ==
    <<"\n**", exhibit.title, "**\n\n", exhibit.data>>

\* mutant: all_released only looks at the MAX_EXHIBITS limit
_handle_exhibit_request_limit_only(exhibits, released) ==
    IF exhibits = <<>>
    THEN [text |-> NoExhibitsText, all_provided |-> FALSE, released |-> released]
    ELSE IF Len(released) >= MAX_EXHIBITS
    THEN [text |-> MaxReachedText, all_provided |-> TRUE, released |-> released]
    ELSE LET unreleased == unreleased_positions(exhibits, released)
         IN IF unreleased = <<>>
            THEN [text |-> AllProvidedText, all_provided |-> TRUE,
                  released |-> released]
            ELSE LET next_exhibit == exhibits[unreleased[1] + 1]
                     exhibit_index == index(exhibits, next_exhibit)
                     released2 == Append(released, exhibit_index)
                     suffix == IF Len(released2) >= MAX_EXHIBITS
                               THEN FinalExhibitSuffix ELSE <<>>
                 IN [text |-> <<"**", next_exhibit.title, "**\n">>
                                 \o exhibit_text(next_exhibit) \o suffix,
                     all_provided |-> Len(released2) >= MAX_EXHIBITS,
                     released |-> released2]

_handle_exhibit_request(exhibits, released) ==
    IF exhibits = <<>>
    THEN [text |-> NoExhibitsText, all_provided |-> FALSE, released |-> released]
    ELSE IF Len(released) >= MAX_EXHIBITS
    THEN [text |-> MaxReachedText, all_provided |-> TRUE, released |-> released]
    ELSE LET unreleased == unreleased_positions(exhibits, released)
         IN IF unreleased = <<>>
            THEN [text |-> AllProvidedText, all_provided |-> TRUE,
                  released |-> released]
            ELSE LET next_exhibit == exhibits[unreleased[1] + 1]
                     exhibit_index == index(exhibits, next_exhibit)
                     released2 == Append(released, exhibit_index)
                     suffix == IF Len(released2) >= MAX_EXHIBITS
                               THEN FinalExhibitSuffix ELSE <<>>
                 IN [text |-> <<"**", next_exhibit.title, "**\n">>
                                 \o exhibit_text(next_exhibit) \o suffix,
                     all_provided |-> \/ Len(released2) >= MAX_EXHIBITS
                                      \/ Len(released2) = Len(exhibits),
                     released |-> released2]

(***************************************************************************)
(* InterviewerAgent._should_transition_phase, on the values of             *)
(* self.current_phase and self.phase_turns it reads.                       *)
(***************************************************************************)
\* mutant: the DATA_ANALYSIS fallback fires at 5 turns
_should_transition_phase_late(phase, turns, candidate_message) ==
    LET min_turns == 2
    IN IF turns[phase] < min_turns THEN <<FALSE, phase>>
       ELSE IF phase = PHASE_FRAMEWORK
       THEN LET framework_complete == keyword_matches(candidate_message).framework
            IN IF framework_complete \/ turns[phase] >= 3
               THEN <<TRUE, PHASE_DATA_ANALYSIS>> ELSE <<FALSE, phase>>
       ELSE IF phase = PHASE_DATA_ANALYSIS
       THEN LET recommendation_signals ==
                    keyword_matches(candidate_message).recommendation
            IN IF recommendation_signals \/ turns[phase] >= 5
               THEN <<TRUE, PHASE_RECOMMENDATION>> ELSE <<FALSE, phase>>
       ELSE IF phase = PHASE_RECOMMENDATION
       THEN IF turns[phase] >= 2
            THEN <<TRUE, PHASE_PUSHBACK>> ELSE <<FALSE, phase>>
       ELSE IF phase = PHASE_PUSHBACK
       THEN IF turns[phase] >= 2
            THEN <<TRUE, PHASE_CONCLUSION>> ELSE <<FALSE, phase>>
       ELSE IF phase = PHASE_CONCLUSION
       THEN IF turns[phase] >= 1
            THEN <<TRUE, PHASE_COMPLETED>> ELSE <<FALSE, phase>>
       ELSE <<FALSE, phase>>

\* mutant: the FRAMEWORK fallback fires at 2 turns
_should_transition_phase_early(phase, turns, candidate_message) ==
    LET min_turns == 2
    IN IF turns[phase] < min_turns THEN <<FALSE, phase>>
       ELSE IF phase = PHASE_FRAMEWORK
       THEN LET framework_complete == keyword_matches(candidate_message).framework
            IN IF framework_complete \/ turns[phase] >= 2
               THEN <<TRUE, PHASE_DATA_ANALYSIS>> ELSE <<FALSE, phase>>
       ELSE IF phase = PHASE_DATA_ANALYSIS
       THEN LET recommendation_signals ==
                    keyword_matches(candidate_message).recommendation
            IN IF recommendation_signals \/ turns[phase] >= 4
               THEN <<TRUE, PHASE_RECOMMENDATION>> ELSE <<FALSE, phase>>
       ELSE IF phase = PHASE_RECOMMENDATION
       THEN IF turns[phase] >= 2
            THEN <<TRUE, PHASE_PUSHBACK>> ELSE <<FALSE, phase>>
       ELSE IF phase = PHASE_PUSHBACK
       THEN IF turns[phase] >= 2
            THEN <<TRUE, PHASE_CONCLUSION>> ELSE <<FALSE, phase>>
       ELSE IF phase = PHASE_CONCLUSION
       THEN IF turns[phase] >= 1
            THEN <<TRUE, PHASE_COMPLETED>> ELSE <<FALSE, phase>>
       ELSE <<FALSE, phase>>

\* mutant: keywords are ignored in mode candidate_led
_should_transition_phase_gated(phase, turns, candidate_message) ==
    LET min_turns == 2
    IN IF turns[phase] < min_turns THEN <<FALSE, phase>>
       ELSE IF phase = PHASE_FRAMEWORK
       THEN LET framework_complete == keyword_matches(candidate_message).framework
            IN IF (interview_mode # "candidate_led" /\ framework_complete)
                  \/ turns[phase] >= 3
               THEN <<TRUE, PHASE_DATA_ANALYSIS>> ELSE <<FALSE, phase>>
       ELSE IF phase = PHASE_DATA_ANALYSIS
       THEN LET recommendation_signals ==
                    keyword_matches(candidate_message).recommendation
            IN IF (interview_mode # "candidate_led" /\ recommendation_signals)
                  \/ turns[phase] >= 4
               THEN <<TRUE, PHASE_RECOMMENDATION>> ELSE <<FALSE, phase>>
       ELSE IF phase = PHASE_RECOMMENDATION
       THEN IF turns[phase] >= 2
            THEN <<TRUE, PHASE_PUSHBACK>> ELSE <<FALSE, phase>>
       ELSE IF phase = PHASE_PUSHBACK
       THEN IF turns[phase] >= 2
            THEN <<TRUE, PHASE_CONCLUSION>> ELSE <<FALSE, phase>>
       ELSE IF phase = PHASE_CONCLUSION
       THEN IF turns[phase] >= 1
            THEN <<TRUE, PHASE_COMPLETED>> ELSE <<FALSE, phase>>
       ELSE <<FALSE, phase>>

\* mutant: the PUSHBACK transition fires at 3 turns
_should_transition_phase_pushing(phase, turns, candidate_message) ==
    LET min_turns == 2
    IN IF turns[phase] < min_turns THEN <<FALSE, phase>>
       ELSE IF phase = PHASE_FRAMEWORK
       THEN LET framework_complete == keyword_matches(candidate_message).framework
            IN IF framework_complete \/ turns[phase] >= 3
               THEN <<TRUE, PHASE_DATA_ANALYSIS>> ELSE <<FALSE, phase>>
       ELSE IF phase = PHASE_DATA_ANALYSIS
       THEN LET recommendation_signals ==
                    keyword_matches(candidate_message).recommendation
            IN IF recommendation_signals \/ turns[phase] >= 4
               THEN <<TRUE, PHASE_RECOMMENDATION>> ELSE <<FALSE, phase>>
       ELSE IF phase = PHASE_RECOMMENDATION
       THEN IF turns[phase] >= 2
            THEN <<TRUE, PHASE_PUSHBACK>> ELSE <<FALSE, phase>>
       ELSE IF phase = PHASE_PUSHBACK
       THEN IF turns[phase] >= 3
            THEN <<TRUE, PHASE_CONCLUSION>> ELSE <<FALSE, phase>>
       ELSE IF phase = PHASE_CONCLUSION
       THEN IF turns[phase] >= 1
            THEN <<TRUE, PHASE_COMPLETED>> ELSE <<FALSE, phase>>
       ELSE <<FALSE, phase>>

_should_transition_phase(phase, turns, candidate_message) ==
    LET min_turns == 2
    IN IF turns[phase] < min_turns THEN <<FALSE, phase>>
       ELSE IF phase = PHASE_FRAMEWORK
       THEN LET framework_complete == keyword_matches(candidate_message).framework
            IN IF framework_complete \/ turns[phase] >= 3
               THEN <<TRUE, PHASE_DATA_ANALYSIS>> ELSE <<FALSE, phase>>
       ELSE IF phase = PHASE_DATA_ANALYSIS
       THEN LET recommendation_signals ==
                    keyword_matches(candidate_message).recommendation
            IN IF recommendation_signals \/ turns[phase] >= 4
               THEN <<TRUE, PHASE_RECOMMENDATION>> ELSE <<FALSE, phase>>
       ELSE IF phase = PHASE_RECOMMENDATION
       THEN IF turns[phase] >= 2
            THEN <<TRUE, PHASE_PUSHBACK>> ELSE <<FALSE, phase>>
       ELSE IF phase = PHASE_PUSHBACK
       THEN IF turns[phase] >= 2
            THEN <<TRUE, PHASE_CONCLUSION>> ELSE <<FALSE, phase>>
       ELSE IF phase = PHASE_CONCLUSION
       THEN IF turns[phase] >= 1
            THEN <<TRUE, PHASE_COMPLETED>> ELSE <<FALSE, phase>>
       ELSE <<FALSE, phase>>

(***************************************************************************)
(* InterviewerAgent._get_next_phase                                        *)
(***************************************************************************)
phase_sequence ==
    <<PHASE_FRAMEWORK, PHASE_DATA_ANALYSIS, PHASE_RECOMMENDATION,
      PHASE_PUSHBACK, PHASE_CONCLUSION, PHASE_COMPLETED>>

\* mutant: the successor is taken two places on
_get_next_phase_skipping(phase) ==
    IF \E i \in 1..Len(phase_sequence) : phase_sequence[i] = phase
    THEN LET current_index ==
                 CHOOSE i \in 1..Len(phase_sequence) : phase_sequence[i] = phase
         IN IF current_index + 2 <= Len(phase_sequence)
            THEN phase_sequence[current_index + 2] ELSE phase
    ELSE PHASE_FRAMEWORK

_get_next_phase(phase) ==
    IF \E i \in 1..Len(phase_sequence) : phase_sequence[i] = phase
    THEN LET current_index ==
                 CHOOSE i \in 1..Len(phase_sequence) : phase_sequence[i] = phase
         IN IF current_index + 1 <= Len(phase_sequence)
            THEN phase_sequence[current_index + 1] ELSE phase
    ELSE PHASE_FRAMEWORK

(***************************************************************************)
(* InterviewerAgent._generate_response: the reply of the external service, *)
(* or the fixed fallback when the call raises.                             *)
(***************************************************************************)
_generate_response(llm_ok) ==
    IF llm_ok THEN GeneratedText ELSE FallbackText

(***************************************************************************)
(* InterviewerAgent.__init__                                               *)
(***************************************************************************)
\* InterviewSession.current_phase of a new session
SessionPhaseDefault == "framework"

\* the agent used on its own (as in agents/tests.py): a session that no
\* consumer has served yet
\* a consumer that has not connected: InterviewConsumer.__init__ and the
\* agent it does not hold yet
no_peer ==
    [connected |-> FALSE, interviewer |-> FALSE, sent |-> <<>>,
     conversation_history |-> <<>>, exhibits_released |-> <<>>,
     current_phase |-> PHASE_FRAMEWORK, turn_count |-> 0,
     phase_turns |-> [phase \in {PHASE_FRAMEWORK, PHASE_DATA_ANALYSIS,
                                 PHASE_RECOMMENDATION, PHASE_PUSHBACK,
                                 PHASE_CONCLUSION} |-> 0],
     response |-> NoResponse, locals |-> NoLocals]

no_consumer ==
    /\ session_has_case = TRUE
    /\ session_status = "not_started"
    /\ session_phase = SessionPhaseDefault
    /\ db_messages = <<>>
    /\ connected = FALSE
    /\ interviewer = FALSE
    /\ sent = <<>>
    /\ peer = no_peer

Init ==
    /\ case_data \in Cases
    /\ interview_mode \in InterviewModes
    /\ conversation_history = <<>>
    /\ exhibits_released = <<>>
    /\ current_phase = PHASE_FRAMEWORK
    /\ turn_count = 0
    /\ phase_turns = [phase \in {PHASE_FRAMEWORK, PHASE_DATA_ANALYSIS,
                                 PHASE_RECOMMENDATION, PHASE_PUSHBACK,
                                 PHASE_CONCLUSION} |-> 0]
    /\ response = NoResponse
    /\ locals = NoLocals
    /\ no_consumer

(***************************************************************************)
(* InterviewerAgent.process_candidate_message.  Each of its three returns  *)
(* is given as the values of the agent's fields when it returns, the dict  *)
(* it returns (response) and the local values of the call (locals).        *)
(***************************************************************************)
\* dict assignment d[key] = value: the key is added when it is missing
set_item(d, key, value) ==
    [k \in DOMAIN d \cup {key} |-> IF k = key THEN value ELSE d[k]]

\* mutant: the turn is counted before the completed test
completed_return_counting(message) ==
    [conversation_history |-> conversation_history,
     exhibits_released |-> exhibits_released,
     current_phase |-> current_phase,
     turn_count |-> turn_count + 1,
     phase_turns |-> phase_turns,
     response |-> [message |-> ConcludedText, phase |-> PHASE_COMPLETED,
                   completed |-> TRUE],
     locals |-> [NoLocals EXCEPT !.message = message, !.phase = current_phase,
                                 !.next_phase = current_phase]]

\* lines 82-88: the interview is already completed
completed_return(message) ==
    [conversation_history |-> conversation_history,
     exhibits_released |-> exhibits_released,
     current_phase |-> current_phase,
     turn_count |-> turn_count,
     phase_turns |-> phase_turns,
     response |-> [message |-> ConcludedText, phase |-> PHASE_COMPLETED,
                   completed |-> TRUE],
     locals |-> [NoLocals EXCEPT !.message = message, !.phase = current_phase,
                                 !.next_phase = current_phase]]

\* mutant: the forced advance is taken in CONCLUSION too
exhibit_return_through_conclusion(message) ==
    LET turns1 == [phase_turns EXCEPT ![current_phase] = @ + 1]
        handled == _handle_exhibit_request(case_data.exhibits, exhibits_released)
        decision == _should_transition_phase(current_phase, turns1, message)
        force == /\ handled.all_provided
                 /\ ~decision[1]
        phase2 == IF force THEN _get_next_phase(current_phase) ELSE current_phase
    IN [conversation_history |->
            conversation_history
              \o <<[role |-> "candidate", content |-> message],
                   [role |-> "interviewer", content |-> handled.text]>>,
        exhibits_released |-> handled.released,
        current_phase |-> phase2,
        turn_count |-> turn_count + 1,
        phase_turns |-> IF force THEN set_item(turns1, phase2, 0) ELSE turns1,
        response |-> [message |-> handled.text, phase |-> phase2,
                      completed |-> FALSE],
        locals |-> [message |-> message, phase |-> current_phase,
                    turns |-> turns1[current_phase],
                    exhibit_request |-> TRUE,
                    all_exhibits_provided |-> handled.all_provided,
                    consulted |-> handled.all_provided,
                    should_transition |-> handled.all_provided /\ decision[1],
                    next_phase |-> IF handled.all_provided THEN decision[2]
                                   ELSE current_phase]]

\* lines 90-120: the message is an exhibit request
exhibit_return(message) ==
    LET turns1 == [phase_turns EXCEPT ![current_phase] = @ + 1]
        handled == _handle_exhibit_request(case_data.exhibits, exhibits_released)
        decision == _should_transition_phase(current_phase, turns1, message)
        force == /\ handled.all_provided
                 /\ ~decision[1]
                 /\ current_phase # PHASE_CONCLUSION
        phase2 == IF force THEN _get_next_phase(current_phase) ELSE current_phase
    IN [conversation_history |->
            conversation_history
              \o <<[role |-> "candidate", content |-> message],
                   [role |-> "interviewer", content |-> handled.text]>>,
        exhibits_released |-> handled.released,
        current_phase |-> phase2,
        turn_count |-> turn_count + 1,
        phase_turns |-> IF force THEN set_item(turns1, phase2, 0) ELSE turns1,
        response |-> [message |-> handled.text, phase |-> phase2,
                      completed |-> FALSE],
        locals |-> [message |-> message, phase |-> current_phase,
                    turns |-> turns1[current_phase],
                    exhibit_request |-> TRUE,
                    all_exhibits_provided |-> handled.all_provided,
                    consulted |-> handled.all_provided,
                    should_transition |-> handled.all_provided /\ decision[1],
                    next_phase |-> IF handled.all_provided THEN decision[2]
                                   ELSE current_phase]]

\* mutant: when the external call fails the decided transition is not applied
generated_return_stalling(message, llm_ok) ==
    LET turns1 == [phase_turns EXCEPT ![current_phase] = @ + 1]
        decision == _should_transition_phase(current_phase, turns1, message)
        reply == _generate_response(llm_ok)
        applied == decision[1] /\ llm_ok
        phase2 == IF applied THEN decision[2] ELSE current_phase
    IN [conversation_history |->
            conversation_history
              \o <<[role |-> "candidate", content |-> message],
                   [role |-> "interviewer", content |-> reply]>>,
        exhibits_released |-> exhibits_released,
        current_phase |-> phase2,
        turn_count |-> turn_count + 1,
        phase_turns |-> IF applied THEN set_item(turns1, decision[2], 0)
                        ELSE turns1,
        response |-> [message |-> reply, phase |-> phase2,
                      completed |-> (phase2 = PHASE_COMPLETED)],
        locals |-> [message |-> message, phase |-> current_phase,
                    turns |-> turns1[current_phase],
                    exhibit_request |-> FALSE,
                    all_exhibits_provided |-> FALSE,
                    consulted |-> TRUE,
                    should_transition |-> decision[1],
                    next_phase |-> decision[2]]]

\* mutant: the reply is appended before the candidate message
generated_return_reply_first(message, llm_ok) ==
    LET turns1 == [phase_turns EXCEPT ![current_phase] = @ + 1]
        decision == _should_transition_phase(current_phase, turns1, message)
        reply == _generate_response(llm_ok)
        phase2 == IF decision[1] THEN decision[2] ELSE current_phase
    IN [conversation_history |->
            conversation_history
              \o <<[role |-> "interviewer", content |-> reply],
                   [role |-> "candidate", content |-> message]>>,
        exhibits_released |-> exhibits_released,
        current_phase |-> phase2,
        turn_count |-> turn_count + 1,
        phase_turns |-> IF decision[1] THEN set_item(turns1, decision[2], 0)
                        ELSE turns1,
        response |-> [message |-> reply, phase |-> phase2,
                      completed |-> (phase2 = PHASE_COMPLETED)],
        locals |-> [message |-> message, phase |-> current_phase,
                    turns |-> turns1[current_phase],
                    exhibit_request |-> FALSE,
                    all_exhibits_provided |-> FALSE,
                    consulted |-> TRUE,
                    should_transition |-> decision[1],
                    next_phase |-> decision[2]]]

\* mutant: the turn that triggers a transition is counted in the phase it enters
generated_return_counting_entry(message, llm_ok) ==
    LET turns1 == [phase_turns EXCEPT ![current_phase] = @ + 1]
        decision == _should_transition_phase(current_phase, turns1, message)
        reply == _generate_response(llm_ok)
        phase2 == IF decision[1] THEN decision[2] ELSE current_phase
    IN [conversation_history |->
            conversation_history
              \o <<[role |-> "candidate", content |-> message],
                   [role |-> "interviewer", content |-> reply]>>,
        exhibits_released |-> exhibits_released,
        current_phase |-> phase2,
        turn_count |-> turn_count + 1,
        phase_turns |-> IF decision[1] THEN set_item(turns1, decision[2], 1)
                        ELSE turns1,
        response |-> [message |-> reply, phase |-> phase2,
                      completed |-> (phase2 = PHASE_COMPLETED)],
        locals |-> [message |-> message, phase |-> current_phase,
                    turns |-> turns1[current_phase],
                    exhibit_request |-> FALSE,
                    all_exhibits_provided |-> FALSE,
                    consulted |-> TRUE,
                    should_transition |-> decision[1],
                    next_phase |-> decision[2]]]

\* lines 90-97 and 122-145: the reply is generated
generated_return(message, llm_ok) ==
    LET turns1 == [phase_turns EXCEPT ![current_phase] = @ + 1]
        decision == _should_transition_phase(current_phase, turns1, message)
        reply == _generate_response(llm_ok)
        phase2 == IF decision[1] THEN decision[2] ELSE current_phase
    IN [conversation_history |->
            conversation_history
              \o <<[role |-> "candidate", content |-> message],
                   [role |-> "interviewer", content |-> reply]>>,
        exhibits_released |-> exhibits_released,
        current_phase |-> phase2,
        turn_count |-> turn_count + 1,
        phase_turns |-> IF decision[1] THEN set_item(turns1, decision[2], 0)
                        ELSE turns1,
        response |-> [message |-> reply, phase |-> phase2,
                      completed |-> (phase2 = PHASE_COMPLETED)],
        locals |-> [message |-> message, phase |-> current_phase,
                    turns |-> turns1[current_phase],
                    exhibit_request |-> FALSE,
                    all_exhibits_provided |-> FALSE,
                    consulted |-> TRUE,
                    should_transition |-> decision[1],
                    next_phase |-> decision[2]]]

\* the fields, the returned dict and the locals after the call
after_message(message, llm_ok) ==
    IF current_phase = PHASE_COMPLETED
    THEN completed_return(message)
    ELSE IF _is_exhibit_request(message)
    THEN exhibit_return(message)
    ELSE generated_return(message, llm_ok)

process_candidate_message(message, llm_ok) ==
    LET after == after_message(message, llm_ok)
    IN /\ conversation_history' = after.conversation_history
       /\ exhibits_released' = after.exhibits_released
       /\ current_phase' = after.current_phase
       /\ turn_count' = after.turn_count
       /\ phase_turns' = after.phase_turns
       /\ response' = after.response
       /\ locals' = after.locals
       /\ UNCHANGED <<case_data, interview_mode>>
       /\ UNCHANGED driver_vars

(***************************************************************************)
(* interviews/consumers.py: InterviewConsumer, one session.  A handler     *)
(* runs to its end before the next event of the connection is handled.     *)
(***************************************************************************)
\* a frame sent to the client; a key the code leaves out of the dict is ""
\* (phase) or FALSE (completed, resumed)
frame(message, role, phase, completed, resumed) ==
    [message |-> message, role |-> role, phase |-> phase,
     completed |-> completed, resumed |-> resumed]

NoCaseText ==
    <<"Error: Could not load case data. Please refresh and try again.">>

\* InterviewerAgent.get_opening_message
get_opening_message(mode) ==
    IF mode = "interviewer_led"
    THEN <<"Welcome to your case interview. I'll be guiding you through this case.\n\n",
           "<prompt>",
           "\n\nLet me know when you're ready to begin, and feel free to ask clarifying questions.">>
    ELSE IF mode = "candidate_led"
    THEN <<"Welcome to your case interview. In this candidate-led format, you'll drive the structure and analysis.\n\n",
           "<prompt>",
           "\n\nPlease take a moment to think about your approach, then walk me through your framework.">>
    ELSE <<"Welcome to your product management case interview.\n\n",
           "<prompt>",
           "\n\nPlease share your initial thoughts and approach to this product challenge.">>

\* the fields of a newly constructed InterviewerAgent
fresh_agent ==
    [conversation_history |-> <<>>,
     exhibits_released |-> <<>>,
     current_phase |-> PHASE_FRAMEWORK,
     turn_count |-> 0,
     phase_turns |-> [phase \in {PHASE_FRAMEWORK, PHASE_DATA_ANALYSIS,
                                 PHASE_RECOMMENDATION, PHASE_PUSHBACK,
                                 PHASE_CONCLUSION} |-> 0]]

\* lines 73: the role of a persisted message inside the agent
internal_role(role) ==
    IF role = "assistant" THEN "interviewer"
    ELSE IF role = "user" THEN "candidate" ELSE role

\* mutant: the counter of the restored phase is the number of user messages
restored_agent_counting(existing_messages, persisted_phase) ==
    LET user_messages == SelectSeq(existing_messages,
                                   LAMBDA m : m.role = "user")
    IN [conversation_history |->
            [i \in 1..Len(existing_messages) |->
                [role |-> internal_role(existing_messages[i].role),
                 content |-> existing_messages[i].content]],
        exhibits_released |-> <<>>,
        current_phase |-> persisted_phase,
        turn_count |-> Len(user_messages),
        phase_turns |-> set_item(fresh_agent.phase_turns, persisted_phase,
                                 Len(user_messages))]

\* mutant: the released exhibits are restored from the persisted replies
restored_agent_with_exhibits(existing_messages, persisted_phase) ==
    LET user_messages == SelectSeq(existing_messages,
                                   LAMBDA m : m.role = "user")
        fifth == Len(user_messages) \div 5
        phase_user_messages == IF fifth > 1 THEN fifth ELSE 1
        released == SelectSeq(existing_messages,
                              LAMBDA m : m.role = "assistant"
                                           /\ m.content[1] = "**")
    IN [conversation_history |->
            [i \in 1..Len(existing_messages) |->
                [role |-> internal_role(existing_messages[i].role),
                 content |-> existing_messages[i].content]],
        exhibits_released |-> [i \in 1..Len(released) |-> i - 1],
        current_phase |-> persisted_phase,
        turn_count |-> Len(user_messages),
        phase_turns |-> set_item(fresh_agent.phase_turns, persisted_phase,
                                 phase_user_messages)]

\* mutant: turn_count is restored as the number of persisted messages
restored_agent_counting_replies(existing_messages, persisted_phase) ==
    LET user_messages == SelectSeq(existing_messages,
                                   LAMBDA m : m.role = "user")
        fifth == Len(user_messages) \div 5
        phase_user_messages == IF fifth > 1 THEN fifth ELSE 1
    IN [conversation_history |->
            [i \in 1..Len(existing_messages) |->
                [role |-> internal_role(existing_messages[i].role),
                 content |-> existing_messages[i].content]],
        exhibits_released |-> <<>>,
        current_phase |-> persisted_phase,
        turn_count |-> Len(existing_messages),
        phase_turns |-> set_item(fresh_agent.phase_turns, persisted_phase,
                                 phase_user_messages)]

\* lines 69-90: the agent restored from the persisted messages and phase
restored_agent(existing_messages, persisted_phase) ==
    LET user_messages == SelectSeq(existing_messages,
                                   LAMBDA m : m.role = "user")
        fifth == Len(user_messages) \div 5
        phase_user_messages == IF fifth > 1 THEN fifth ELSE 1
    IN [conversation_history |->
            [i \in 1..Len(existing_messages) |->
                [role |-> internal_role(existing_messages[i].role),
                 content |-> existing_messages[i].content]],
        exhibits_released |-> <<>>,
        current_phase |-> persisted_phase,
        turn_count |-> Len(user_messages),
        phase_turns |-> set_item(fresh_agent.phase_turns, persisted_phase,
                                 phase_user_messages)]

\* the agent's fields take the values of the record
agent_becomes(agent) ==
    /\ conversation_history' = agent.conversation_history
    /\ exhibits_released' = agent.exhibits_released
    /\ current_phase' = agent.current_phase
    /\ turn_count' = agent.turn_count
    /\ phase_turns' = agent.phase_turns
    /\ response' = NoResponse
    /\ locals' = NoLocals

\* mutant: the agent is constructed without looking for the case
initialize_interviewer_without_case ==
    /\ session_status' = "in_progress"
    /\ interviewer' = TRUE
    /\ IF db_messages # <<>>
       THEN /\ agent_becomes(restored_agent(db_messages, session_phase))
            /\ sent' = <<frame(<<>>, "system", session_phase, FALSE, TRUE)>>
            /\ UNCHANGED <<db_messages, session_phase>>
       ELSE LET opening_msg == get_opening_message(interview_mode)
            IN /\ agent_becomes(fresh_agent)
               /\ db_messages' =
                     <<[role |-> "assistant", content |-> opening_msg]>>
               /\ sent' = <<frame(opening_msg, "interviewer",
                                   PHASE_FRAMEWORK, FALSE, FALSE)>>
               /\ UNCHANGED session_phase

\* mutant: the session counts as new until a candidate message is persisted
initialize_interviewer_reopening ==
    /\ session_status' = "in_progress"
    /\ IF ~session_has_case
       THEN /\ interviewer' = FALSE
            /\ sent' = <<frame(NoCaseText, "system", "", FALSE, FALSE)>>
            /\ agent_becomes(fresh_agent)
            /\ UNCHANGED <<db_messages, session_phase>>
       ELSE /\ interviewer' = TRUE
            /\ IF \E i \in 1..Len(db_messages) : db_messages[i].role = "user"
               THEN /\ agent_becomes(restored_agent(db_messages, session_phase))
                    /\ sent' = <<frame(<<>>, "system", session_phase, FALSE,
                                        TRUE)>>
                    /\ UNCHANGED <<db_messages, session_phase>>
               ELSE LET opening_msg == get_opening_message(interview_mode)
                    IN /\ agent_becomes(fresh_agent)
                       /\ db_messages' =
                             <<[role |-> "assistant", content |-> opening_msg]>>
                       /\ sent' = <<frame(opening_msg, "interviewer",
                                           PHASE_FRAMEWORK, FALSE, FALSE)>>
                       /\ UNCHANGED session_phase

\* InterviewConsumer.initialize_interviewer, the session not completed
initialize_interviewer ==
    /\ session_status' = "in_progress"
    /\ IF ~session_has_case
       THEN /\ interviewer' = FALSE
            /\ sent' = <<frame(NoCaseText, "system", "", FALSE, FALSE)>>
            /\ agent_becomes(fresh_agent)
            /\ UNCHANGED <<db_messages, session_phase>>
       ELSE /\ interviewer' = TRUE
            /\ IF db_messages # <<>>
               THEN /\ agent_becomes(restored_agent(db_messages, session_phase))
                    /\ sent' = <<frame(<<>>, "system", session_phase, FALSE,
                                        TRUE)>>
                    /\ UNCHANGED <<db_messages, session_phase>>
               ELSE LET opening_msg == get_opening_message(interview_mode)
                    IN /\ agent_becomes(fresh_agent)
                       /\ db_messages' =
                             <<[role |-> "assistant", content |-> opening_msg]>>
                       /\ sent' = <<frame(opening_msg, "interviewer",
                                           PHASE_FRAMEWORK, FALSE, FALSE)>>
                       /\ UNCHANGED session_phase

\* mutant: the status is not looked at before the agent is initialized
connect_initializing ==
    /\ ~connected
    /\ connected' = TRUE
    /\ initialize_interviewer
    /\ UNCHANGED <<case_data, interview_mode, session_has_case>>

\* InterviewConsumer.connect, by a new consumer
connect ==
    /\ ~connected
    /\ connected' = TRUE
    /\ IF session_status = "completed"
       THEN /\ interviewer' = FALSE
            /\ sent' = <<>>
            /\ agent_becomes(fresh_agent)
            /\ UNCHANGED <<session_status, session_phase, db_messages>>
       ELSE initialize_interviewer
    /\ UNCHANGED <<case_data, interview_mode, session_has_case>>

\* InterviewConsumer.disconnect: the consumer and its agent are dropped
disconnect ==
    /\ connected
    /\ connected' = FALSE
    /\ interviewer' = FALSE
    /\ sent' = <<>>
    /\ agent_becomes(fresh_agent)
    /\ UNCHANGED <<case_data, interview_mode, session_has_case,
                   session_status, session_phase, db_messages>>

\* mutant: the message is saved before it is validated
receive_saving_first(text, role, llm_ok) ==
    LET valid == validation(text)
        message == valid.sanitized
        saved == Append(db_messages, [role |-> role, content |-> message])
        echo == frame(message, role, "", FALSE, FALSE)
    IN /\ connected
       /\ IF ~valid.is_valid
          THEN /\ sent' = <<frame(<<"<warning sign> ">> \o valid.error, "system", "",
                                  FALSE, FALSE)>>
               /\ db_messages' =
                     Append(db_messages, [role |-> role, content |-> text])
               /\ UNCHANGED <<conversation_history, exhibits_released,
                              current_phase, turn_count, phase_turns, response,
                              locals, session_status, session_phase>>
          ELSE IF interviewer /\ role = "user"
          THEN LET after == after_message(message, llm_ok)
                   response_data == after.response
               IN /\ conversation_history' = after.conversation_history
                  /\ exhibits_released' = after.exhibits_released
                  /\ current_phase' = after.current_phase
                  /\ turn_count' = after.turn_count
                  /\ phase_turns' = after.phase_turns
                  /\ response' = response_data
                  /\ locals' = after.locals
                  /\ db_messages' =
                        Append(saved, [role |-> "assistant",
                                       content |-> response_data.message])
                  /\ session_phase' = response_data.phase
                  /\ session_status' = IF response_data.completed
                                       THEN "completed" ELSE session_status
                  /\ sent' = <<echo,
                               frame(response_data.message, "interviewer",
                                     response_data.phase,
                                     response_data.completed, FALSE)>>
          ELSE /\ db_messages' = saved
               /\ sent' = <<echo>>
               /\ UNCHANGED <<conversation_history, exhibits_released,
                              current_phase, turn_count, phase_turns, response,
                              locals, session_status, session_phase>>
       /\ UNCHANGED <<connected, interviewer, case_data, interview_mode,
                      session_has_case>>

\* mutant: the phase marker is never moved back
receive_fenced(text, role, llm_ok) ==
    LET valid == validation(text)
        message == valid.sanitized
        saved == Append(db_messages, [role |-> role, content |-> message])
        echo == frame(message, role, "", FALSE, FALSE)
    IN /\ connected
       /\ IF ~valid.is_valid
          THEN /\ sent' = <<frame(<<"<warning sign> ">> \o valid.error, "system", "",
                                  FALSE, FALSE)>>
               /\ UNCHANGED <<conversation_history, exhibits_released,
                              current_phase, turn_count, phase_turns, response,
                              locals, session_status, session_phase,
                              db_messages>>
          ELSE IF interviewer /\ role = "user"
          THEN LET after == after_message(message, llm_ok)
                   response_data == after.response
               IN /\ conversation_history' = after.conversation_history
                  /\ exhibits_released' = after.exhibits_released
                  /\ current_phase' = after.current_phase
                  /\ turn_count' = after.turn_count
                  /\ phase_turns' = after.phase_turns
                  /\ response' = response_data
                  /\ locals' = after.locals
                  /\ db_messages' =
                        Append(saved, [role |-> "assistant",
                                       content |-> response_data.message])
                  /\ session_phase' = IF \E i \in 1..5 :
                                          /\ phase_sequence[i] = response_data.phase
                                          /\ \E j \in (i + 1)..6 :
                                                phase_sequence[j] = session_phase
                                     THEN session_phase
                                     ELSE response_data.phase
                  /\ session_status' = IF response_data.completed
                                       THEN "completed" ELSE session_status
                  /\ sent' = <<echo,
                               frame(response_data.message, "interviewer",
                                     response_data.phase,
                                     response_data.completed, FALSE)>>
          ELSE /\ db_messages' = saved
               /\ sent' = <<echo>>
               /\ UNCHANGED <<conversation_history, exhibits_released,
                              current_phase, turn_count, phase_turns, response,
                              locals, session_status, session_phase>>
       /\ UNCHANGED <<connected, interviewer, case_data, interview_mode,
                      session_has_case>>

\* InterviewConsumer.receive with update_session_phase, save_message and
\* chat_message
receive(text, role, llm_ok) ==
    LET valid == validation(text)
        message == valid.sanitized
        saved == Append(db_messages, [role |-> role, content |-> message])
        echo == frame(message, role, "", FALSE, FALSE)
    IN /\ connected
       /\ IF ~valid.is_valid
          THEN /\ sent' = <<frame(<<"<warning sign> ">> \o valid.error, "system", "",
                                  FALSE, FALSE)>>
               /\ UNCHANGED <<conversation_history, exhibits_released,
                              current_phase, turn_count, phase_turns, response,
                              locals, session_status, session_phase,
                              db_messages>>
          ELSE IF interviewer /\ role = "user"
          THEN LET after == after_message(message, llm_ok)
                   response_data == after.response
               IN /\ conversation_history' = after.conversation_history
                  /\ exhibits_released' = after.exhibits_released
                  /\ current_phase' = after.current_phase
                  /\ turn_count' = after.turn_count
                  /\ phase_turns' = after.phase_turns
                  /\ response' = response_data
                  /\ locals' = after.locals
                  /\ db_messages' =
                        Append(saved, [role |-> "assistant",
                                       content |-> response_data.message])
                  /\ session_phase' = response_data.phase
                  /\ session_status' = IF response_data.completed
                                       THEN "completed" ELSE session_status
                  /\ sent' = <<echo,
                               frame(response_data.message, "interviewer",
                                     response_data.phase,
                                     response_data.completed, FALSE)>>
          ELSE /\ db_messages' = saved
               /\ sent' = <<echo>>
               /\ UNCHANGED <<conversation_history, exhibits_released,
                              current_phase, turn_count, phase_turns, response,
                              locals, session_status, session_phase>>
       /\ UNCHANGED <<connected, interviewer, case_data, interview_mode,
                      session_has_case>>

\* the next event of the session is handled by the other consumer: each
\* connection has its own InterviewConsumer, with its own self.interviewer,
\* and both work on the rows of the one session
switch_consumer ==
    /\ peer' = [connected |-> connected, interviewer |-> interviewer,
                sent |-> sent,
                conversation_history |-> conversation_history,
                exhibits_released |-> exhibits_released,
                current_phase |-> current_phase, turn_count |-> turn_count,
                phase_turns |-> phase_turns,
                response |-> response, locals |-> locals]
    /\ connected' = peer.connected
    /\ interviewer' = peer.interviewer
    /\ sent' = peer.sent
    /\ conversation_history' = peer.conversation_history
    /\ exhibits_released' = peer.exhibits_released
    /\ current_phase' = peer.current_phase
    /\ turn_count' = peer.turn_count
    /\ phase_turns' = peer.phase_turns
    /\ response' = peer.response
    /\ locals' = peer.locals
    /\ UNCHANGED <<case_data, interview_mode, session_has_case,
                   session_status, session_phase, db_messages>>

\* lines 151-158, 171-180, 182-200: the frames of a handled message go to
\* the group, so a connected second consumer sends them to its client too
group_send ==
    peer' = [peer EXCEPT !.sent = IF peer.connected THEN sent' ELSE @]

(***************************************************************************)
(* interviews/views.py: complete_interview_view, on a session that is not  *)
(* completed yet.                                                          *)
(***************************************************************************)
complete_interview_view ==
    /\ session_status # "completed"
    /\ session_status' = "completed"
    /\ session_phase' = "completed"
    /\ UNCHANGED <<case_data, interview_mode, agent_state, response, locals,
                   session_has_case, db_messages, connected, interviewer,
                   sent>>

(***************************************************************************)
(* Specifications.                                                         *)
(***************************************************************************)
\* Spec: every case and mode, every message, the external service up or
\* down, for MaxTurns candidate turns.
Next ==
    \E message \in Messages, llm_ok \in BOOLEAN :
       /\ current_phase = PHASE_COMPLETED \/ turn_count < MaxTurns
       /\ process_candidate_message(message, llm_ok)
       /\ UNCHANGED peer

Spec == Init /\ [][Next]_vars

\* SpecInterview: whole interviews, MaxInterviewTurns candidate turns long, on
\* the cases with at most one exhibit, the external service up.
InterviewCases == {c \in Cases : Len(c.exhibits) <= 1}

InitInterview == Init /\ case_data \in InterviewCases

NextInterview ==
    \E message \in Messages :
       /\ current_phase = PHASE_COMPLETED \/ turn_count < MaxInterviewTurns
       /\ process_candidate_message(message, TRUE)
       /\ UNCHANGED peer

SpecInterview == InitInterview /\ [][NextInterview]_vars

\* SpecProgress: an interviewer_led session in which the candidate keeps
\* sending exhibit requests, and every message sent is processed (weak
\* fairness of the turn).
ExhibitRequests == {message \in Messages : _is_exhibit_request(message)}

NextProgress ==
    \E message \in ExhibitRequests :
       /\ current_phase = PHASE_COMPLETED \/ turn_count < MaxProgressTurns
       /\ process_candidate_message(message, TRUE)
       /\ UNCHANGED peer

InitProgress == InitInterview /\ interview_mode = "interviewer_led"

SpecProgress ==
    InitProgress /\ [][NextProgress]_vars /\ WF_vars(NextProgress)

\* SpecLength: whole interviews in which no message is an exhibit request:
\* every turn the candidate sends a message with a framework-completion
\* keyword and no recommendation keyword, or one with a recommendation
\* keyword and no framework-completion keyword, so that in FRAMEWORK and in
\* DATA_ANALYSIS each turn is one with and one without the keyword the
\* policy reads there; the external service up.
LengthMessages ==
    {message \in {MsgFramework, MsgRecommend} : ~_is_exhibit_request(message)}

NextLength ==
    \E message \in LengthMessages :
       /\ current_phase = PHASE_COMPLETED \/ turn_count < MaxLengthTurns
       /\ process_candidate_message(message, TRUE)
       /\ UNCHANGED peer

SpecLength == InitInterview /\ [][NextLength]_vars

\* SpecTracker: the cases whose exhibits are pairwise different, every
\* message, the external service up, for MaxTrackerTurns candidate turns.
DistinctExhibits ==
    [i \in 1..MaxCaseExhibits |->
        [title |-> "Exhibit", type |-> "table", data |-> ToString(i)]]

DistinctCases ==
    {[exhibits |-> SubSeq(DistinctExhibits, 1, n)] : n \in 0..MaxCaseExhibits}

InitTracker ==
    /\ case_data \in DistinctCases
    /\ interview_mode \in InterviewModes
    /\ conversation_history = <<>>
    /\ exhibits_released = <<>>
    /\ current_phase = PHASE_FRAMEWORK
    /\ turn_count = 0
    /\ phase_turns = [phase \in {PHASE_FRAMEWORK, PHASE_DATA_ANALYSIS,
                                 PHASE_RECOMMENDATION, PHASE_PUSHBACK,
                                 PHASE_CONCLUSION} |-> 0]
    /\ response = NoResponse
    /\ locals = NoLocals
    /\ no_consumer

NextTracker ==
    \E message \in Messages :
       /\ current_phase = PHASE_COMPLETED \/ turn_count < MaxTrackerTurns
       /\ process_candidate_message(message, TRUE)
       /\ UNCHANGED peer

SpecTracker == InitTracker /\ [][NextTracker]_vars

\* SpecSession: one session, with or without a case, served by at most one
\* consumer at a time: connects, disconnects, client frames of every kind
\* and the complete-interview endpoint, the external service up.
\* the frames of a client: 'message' and 'role'
SessionFrames ==
    ({MsgGeneric, MsgShowData, FrameTagged, FrameBlank, FrameInjection,
      FrameTooLong} \X {"user"})
       \cup {<<MsgGeneric, "assistant">>}

\* the cases of a session: no exhibit, or one
SessionCases ==
    {[exhibits |-> <<>>]}
       \cup {[exhibits |-> <<CHOOSE e \in ExhibitPool : e.title = "Revenue">>]}

InitSession ==
    /\ \/ /\ session_has_case = TRUE
          /\ case_data \in SessionCases
          /\ interview_mode \in InterviewModes
       \/ /\ session_has_case = FALSE
          /\ case_data = [exhibits |-> <<>>]
          /\ interview_mode = "interviewer_led"
    /\ conversation_history = fresh_agent.conversation_history
    /\ exhibits_released = fresh_agent.exhibits_released
    /\ current_phase = fresh_agent.current_phase
    /\ turn_count = fresh_agent.turn_count
    /\ phase_turns = fresh_agent.phase_turns
    /\ response = NoResponse
    /\ locals = NoLocals
    /\ session_status = "not_started"
    /\ session_phase = SessionPhaseDefault
    /\ db_messages = <<>>
    /\ connected = FALSE
    /\ interviewer = FALSE
    /\ sent = <<>>
    /\ peer = no_peer

NextSession ==
    \/ connect /\ UNCHANGED peer
    \/ disconnect /\ UNCHANGED peer
    \/ \E client_frame \in SessionFrames :
          /\ Len(db_messages) + 2 <= MaxSessionLog
          /\ receive(client_frame[1], client_frame[2], TRUE)
          /\ UNCHANGED peer
    \/ complete_interview_view /\ UNCHANGED peer

SpecSession == InitSession /\ [][NextSession]_vars

\* SpecReconnect: a session with a case whose client sends valid candidate
\* messages, disconnects and reconnects, the external service up.
ReconnectTexts == {MsgGeneric, MsgShowData}

InitReconnect == InitSession /\ session_has_case

NextReconnect ==
    \/ connect /\ UNCHANGED peer
    \/ disconnect /\ UNCHANGED peer
    \/ \E text \in ReconnectTexts :
          /\ Len(db_messages) + 2 <= MaxReconnectLog
          /\ receive(text, "user", TRUE)
          /\ UNCHANGED peer

SpecReconnect == InitReconnect /\ [][NextReconnect]_vars

\* SpecConcurrent: a session with a case served by two consumers at the same
\* time, each handling whole events, the external service up.
InitConcurrent == InitSession /\ session_has_case

NextConcurrent ==
    \/ connect /\ UNCHANGED peer
    \/ disconnect /\ UNCHANGED peer
    \/ \E text \in ReconnectTexts :
          /\ Len(db_messages) + 2 <= MaxConcurrentLog
          /\ receive(text, "user", TRUE)
          /\ group_send
    \/ switch_consumer

SpecConcurrent == InitConcurrent /\ [][NextConcurrent]_vars

\* SpecFrames: a session with a case whose client sends, as the candidate,
\* each text of ClientTexts, the external service up.
InitFrames == InitSession /\ session_has_case

NextFrames ==
    \/ connect /\ UNCHANGED peer
    \/ disconnect /\ UNCHANGED peer
    \/ \E text \in ClientTexts :
          /\ Len(db_messages) + 2 <= MaxFramesLog
          /\ receive(text, "user", TRUE)
          /\ UNCHANGED peer

SpecFrames == InitFrames /\ [][NextFrames]_vars

\* SpecRehydrate: a session in progress whose persisted messages and phase
\* are drawn from the logs of PersistedLogs and the six phases; a consumer
\* connects and restores the agent.
PersistedEntry(role) ==
    [role |-> role,
     content |-> IF role = "user" THEN MsgGeneric
                 ELSE IF role = "assistant" THEN GeneratedText
                 ELSE <<"<system message>">>]

PersistedPairs(k) ==
    [i \in 1..(2 * k) |->
        PersistedEntry(IF i % 2 = 1 THEN "user" ELSE "assistant")]

PersistedPrefixes ==
    UNION {[1..n -> {PersistedEntry(role) :
                        role \in {"user", "assistant", "system"}}] :
              n \in 0..MaxLogPrefix}

PersistedLogs ==
    {prefix \o PersistedPairs(k) :
        prefix \in PersistedPrefixes, k \in 0..MaxLogPairs} \ {<<>>}

InitRehydrate ==
    /\ session_has_case = TRUE
    /\ case_data \in SessionCases
    /\ interview_mode \in InterviewModes
    /\ conversation_history = fresh_agent.conversation_history
    /\ exhibits_released = fresh_agent.exhibits_released
    /\ current_phase = fresh_agent.current_phase
    /\ turn_count = fresh_agent.turn_count
    /\ phase_turns = fresh_agent.phase_turns
    /\ response = NoResponse
    /\ locals = NoLocals
    /\ session_status = "in_progress"
    /\ session_phase \in {phase_sequence[i] : i \in 1..Len(phase_sequence)}
    /\ db_messages \in PersistedLogs
    /\ connected = FALSE
    /\ interviewer = FALSE
    /\ sent = <<>>
    /\ peer = no_peer

NextRehydrate == (connect \/ disconnect) /\ UNCHANGED peer

SpecRehydrate == InitRehydrate /\ [][NextRehydrate]_vars

(***************************************************************************)
(* Properties.                                                             *)
(***************************************************************************)
\* the chain of phases and the place of a phase in it
PhaseChain ==
    <<"framework", "data_analysis", "recommendation", "pushback",
      "conclusion", "completed">>

PhaseRank(phase) == CHOOSE i \in 1..Len(PhaseChain) : PhaseChain[i] = phase

Min(a, b) == IF a <= b THEN a ELSE b

\* C1: every call of process_candidate_message on a machine created fresh
\* leaves current_phase unchanged or moves it to its immediate successor in
\* the chain; the phase never moves backwards and never skips a phase.
C1_PhaseStepsByOne ==
    [][\/ current_phase' = current_phase
       \/ PhaseRank(current_phase') = PhaseRank(current_phase) + 1]_vars

\* C1 witness: the whole chain has been walked, one phase at a time
C1_Witness ==
    /\ current_phase = PHASE_COMPLETED
    /\ locals.phase = PHASE_CONCLUSION

\* C2: len(exhibits_released) <= min(MAX_EXHIBITS, number of exhibits of the
\* case), for every exhibit list, equal entries included.
C2_ReleasedWithinBound ==
    Len(exhibits_released) <= Min(3, Len(case_data.exhibits))

\* C3: exhibits_released never holds the same index twice and every element
\* is an index in [0, number of exhibits of the case).
C3_ReleasedDistinctIndices ==
    /\ \A i, j \in 1..Len(exhibits_released) :
          i # j => exhibits_released[i] # exhibits_released[j]
    /\ \A i \in 1..Len(exhibits_released) :
          exhibits_released[i] \in 0..(Len(case_data.exhibits) - 1)

\* C4: with current_phase = COMPLETED, process_candidate_message returns the
\* fixed 'interview has concluded' reply with phase COMPLETED and completed =
\* true, and leaves current_phase, turn_count, phase_turns, exhibits_released
\* and conversation_history unchanged.
C4_CompletedCallChangesNothing ==
    [][current_phase = PHASE_COMPLETED =>
          /\ UNCHANGED <<current_phase, turn_count, phase_turns,
                         exhibits_released, conversation_history>>
          /\ response'.message =
                <<"The interview has concluded. Please proceed to evaluation.">>
          /\ response'.phase = "completed"
          /\ response'.completed = TRUE]_vars

\* C4 witness: a call has been answered with the concluded reply
C4_Witness ==
    /\ current_phase = PHASE_COMPLETED
    /\ response.message = ConcludedText
    /\ locals.phase = PHASE_COMPLETED

\* the message holds a framework-completion keyword (any letter case)
HoldsFrameworkKeyword(message) == keyword_matches(message).framework

\* the message holds a recommendation keyword (any letter case)
HoldsRecommendationKeyword(message) ==
    keyword_matches(message).recommendation

\* the message holds an exhibit-request keyword (any letter case)
HoldsExhibitKeyword(message) == keyword_matches(message).exhibit

\* C5: in FRAMEWORK, when the turn being processed brings
\* phase_turns[FRAMEWORK] to at least 2 and the message holds a
\* framework-completion keyword, the call moves current_phase to
\* DATA_ANALYSIS on that turn, whatever else the message holds.
C5_KeywordMovesToDataAnalysis ==
    (/\ locals.phase = "framework"
     /\ locals.turns >= 2
     /\ HoldsFrameworkKeyword(locals.message))
       => current_phase = "data_analysis"

\* C6: the decision of _should_transition_phase in the first four phases,
\* as a function of the phase, n = phase_turns of the phase and the message.
C6_Table(phase, n, message) ==
    IF n < 2 THEN <<FALSE, phase>>
    ELSE CASE phase = "framework" ->
                IF HoldsFrameworkKeyword(message) \/ n >= 3
                THEN <<TRUE, "data_analysis">> ELSE <<FALSE, phase>>
           [] phase = "data_analysis" ->
                IF HoldsRecommendationKeyword(message) \/ n >= 4
                THEN <<TRUE, "recommendation">> ELSE <<FALSE, phase>>
           [] phase = "recommendation" -> <<TRUE, "pushback">>
           [] phase = "pushback" -> <<TRUE, "conclusion">>

\* C6: every decision the policy takes in one of the first four phases is
\* the one of the table.
C6_DecisionFollowsTable ==
    (/\ locals.consulted
     /\ locals.phase \in {"framework", "data_analysis", "recommendation",
                          "pushback"})
       => <<locals.should_transition, locals.next_phase>>
             = C6_Table(locals.phase, locals.turns, locals.message)

\* C6 witness: the turn-count fallback of DATA_ANALYSIS has decided a
\* transition on a message without keyword
C6_Witness ==
    /\ locals.consulted
    /\ locals.phase = PHASE_DATA_ANALYSIS
    /\ locals.turns = 4
    /\ ~HoldsRecommendationKeyword(locals.message)
    /\ locals.should_transition
    /\ current_phase = PHASE_RECOMMENDATION

\* C7: the first candidate turn processed after entering CONCLUSION (not an
\* exhibit request) moves current_phase to COMPLETED and returns completed =
\* true.
C7_FirstConclusionTurnCompletes ==
    (/\ locals.phase = "conclusion"
     /\ ~locals.exhibit_request
     /\ locals.turns >= 1)
       => /\ current_phase = "completed"
          /\ response.completed = TRUE

\* every candidate message sent so far holds no keyword at all
OnlyGenericMessages ==
    \A i \in 1..Len(conversation_history) :
       conversation_history[i].role = "candidate" =>
          /\ ~HoldsExhibitKeyword(conversation_history[i].content)
          /\ ~HoldsFrameworkKeyword(conversation_history[i].content)
          /\ ~HoldsRecommendationKeyword(conversation_history[i].content)

\* C8: on a fresh session whose messages hold no keyword, current_phase is
\* FRAMEWORK after the 1st and the 2nd message and DATA_ANALYSIS, with
\* phase_turns[DATA_ANALYSIS] = 0, after the 3rd.
C8_FallbackOnThirdMessage ==
    OnlyGenericMessages =>
       /\ turn_count \in {0, 1, 2} => current_phase = "framework"
       /\ turn_count = 3 => /\ current_phase = "data_analysis"
                            /\ phase_turns["data_analysis"] = 0
                            /\ phase_turns["framework"] = 3

\* C8 witness: three generic messages have been processed
C8_Witness ==
    /\ OnlyGenericMessages
    /\ turn_count = 3
    /\ current_phase = PHASE_DATA_ANALYSIS

\* pairs of messages that differ only in a phase-transition keyword, neither
\* an exhibit request
KeywordPairs == {<<MsgGeneric, MsgFramework>>, <<MsgGeneric, MsgRecommend>>}

\* C10: in mode candidate_led, from any state, two messages that differ only
\* in whether they hold a phase-transition keyword leave the same
\* current_phase.
C10_KeywordNeverMovesCandidateLed ==
    interview_mode = "candidate_led" =>
       \A pair \in KeywordPairs :
          after_message(pair[1], TRUE).current_phase
             = after_message(pair[2], TRUE).current_phase

\* C10 as amended: in mode candidate_led the policy is the one of the other
\* modes; on a generated-reply turn that brings phase_turns of the phase to
\* 2, FRAMEWORK moves to DATA_ANALYSIS exactly when the message holds a
\* framework-completion keyword, and DATA_ANALYSIS to RECOMMENDATION exactly
\* when it holds a recommendation keyword.
C10_CandidateLedFollowsKeywords ==
    (/\ interview_mode = "candidate_led"
     /\ ~locals.exhibit_request
     /\ locals.turns = 2)
       => /\ locals.phase = "framework" =>
                (current_phase = "data_analysis"
                   <=> HoldsFrameworkKeyword(locals.message))
          /\ locals.phase = "data_analysis" =>
                (current_phase = "recommendation"
                   <=> HoldsRecommendationKeyword(locals.message))

\* C10 witness: a candidate_led session that a framework keyword moved to
\* DATA_ANALYSIS has been moved on to RECOMMENDATION by a recommendation
\* keyword
C10_Witness ==
    /\ interview_mode = "candidate_led"
    /\ ~locals.exhibit_request
    /\ locals.phase = PHASE_DATA_ANALYSIS
    /\ locals.turns = 2
    /\ HoldsRecommendationKeyword(locals.message)
    /\ current_phase = PHASE_RECOMMENDATION
    /\ turn_count = 4
    /\ exhibits_released = <<>>

\* the number of exhibit requests among the candidate messages processed
RequestsSoFar ==
    Cardinality({i \in 1..Len(conversation_history) :
                    /\ conversation_history[i].role = "candidate"
                    /\ HoldsExhibitKeyword(conversation_history[i].content)})

\* the indices 0 .. n-1 in order
FirstIndices(n) == [i \in 1..n |-> i - 1]

ButLast(history) == SubSeq(history, 1, Len(history) - 1)

\* C12: in every state before COMPLETED and for every message that is no
\* exhibit request, the turn in which the external call fails returns the
\* fixed fallback reply and leaves the history (up to the reply text),
\* turn_count, phase_turns, current_phase, exhibits_released and the returned
\* phase and completed flag as the turn in which the call succeeds.
C12_FailureKeepsStateUpdates ==
    current_phase # "completed" =>
       \A message \in Messages :
          ~HoldsExhibitKeyword(message) =>
             LET ok == after_message(message, TRUE)
                 failed == after_message(message, FALSE)
                 n == Len(failed.conversation_history)
             IN /\ failed.response.message =
                     <<"That's an interesting point. Can you elaborate on your reasoning? What factors are you considering in your analysis?">>
                /\ n = Len(conversation_history) + 2
                /\ failed.conversation_history[n - 1] =
                      [role |-> "candidate", content |-> message]
                /\ failed.conversation_history[n] =
                      [role |-> "interviewer",
                       content |-> failed.response.message]
                /\ ButLast(failed.conversation_history)
                      = ButLast(ok.conversation_history)
                /\ failed.turn_count = ok.turn_count
                /\ failed.turn_count = turn_count + 1
                /\ failed.phase_turns = ok.phase_turns
                /\ failed.current_phase = ok.current_phase
                /\ failed.exhibits_released = ok.exhibits_released
                /\ failed.response.phase = ok.response.phase
                /\ failed.response.completed = ok.response.completed

\* C12 witness: a turn in which the external call failed has applied a
\* decided transition and reset the counter of the new phase
C12_Witness ==
    /\ response.message = FallbackText
    /\ ~locals.exhibit_request
    /\ locals.should_transition
    /\ locals.phase = PHASE_FRAMEWORK
    /\ current_phase = PHASE_DATA_ANALYSIS
    /\ phase_turns[PHASE_DATA_ANALYSIS] = 0
    /\ conversation_history[Len(conversation_history)].content = FallbackText

\* the number of persisted messages of role 'user'
PersistedUserMessages ==
    Cardinality({i \in 1..Len(db_messages) : db_messages[i].role = "user"})

\* the consumer has just restored its agent from a non-empty log
Resumed ==
    /\ connected
    /\ interviewer
    /\ Len(sent) = 1
    /\ sent[1].resumed

\* C13: the agent restored from a non-empty log and a persisted phase p has
\* the log as its history, in order, with 'user' as candidate and
\* 'assistant' as interviewer; current_phase = p; turn_count = c, the number
\* of 'user' messages; phase_turns[p] = max(1, c // 5) and 0 for every other
\* phase; exhibits_released empty.
C13_RestoredState ==
    Resumed =>
       LET c == PersistedUserMessages
       IN /\ Len(conversation_history) = Len(db_messages)
          /\ \A i \in 1..Len(db_messages) :
                /\ conversation_history[i].content = db_messages[i].content
                /\ db_messages[i].role = "user" =>
                      conversation_history[i].role = "candidate"
                /\ db_messages[i].role = "assistant" =>
                      conversation_history[i].role = "interviewer"
          /\ current_phase = session_phase
          /\ turn_count = c
          /\ phase_turns[session_phase] = (IF c \div 5 >= 1 THEN c \div 5 ELSE 1)
          /\ \A phase \in DOMAIN phase_turns \ {session_phase} :
                phase_turns[phase] = 0
          /\ DOMAIN phase_turns \ {session_phase} =
                {"framework", "data_analysis", "recommendation", "pushback",
                 "conclusion"} \ {session_phase}
          /\ exhibits_released = <<>>

\* C13 witness: a log of 7 entries, 4 of the candidate and 3 of the
\* interviewer, restored with persisted phase RECOMMENDATION
C13_Witness ==
    /\ Resumed
    /\ Len(db_messages) = 7
    /\ PersistedUserMessages = 4
    /\ Cardinality({i \in 1..7 : db_messages[i].role = "assistant"}) = 3
    /\ session_phase = PHASE_RECOMMENDATION
    /\ turn_count = 4
    /\ current_phase = PHASE_RECOMMENDATION
    /\ phase_turns[PHASE_RECOMMENDATION] = 1

\* the opening message as persisted and as sent
OpeningEntry == [role |-> "assistant",
                 content |-> get_opening_message(interview_mode)]

OpeningFrame ==
    frame(get_opening_message(interview_mode), "interviewer", "framework",
          FALSE, FALSE)

OpeningsIn(log) == Cardinality({i \in 1..Len(log) : log[i] = OpeningEntry})

\* a consumer connects to the session, which has a case and is not completed
ConnectStep ==
    /\ ~connected
    /\ connected'
    /\ session_has_case
    /\ session_status # "completed"

\* C14: for a session with a case served by one consumer at a time, the
\* connect that finds the persisted log empty persists the opening message
\* and sends it; every other connect of the session, not completed, persists
\* nothing and sends only the acknowledgement with an empty message and
\* resumed = true; no other step persists or sends an opening message, and
\* the log is never emptied, so the opening message is produced once.
C14_OpeningOnce ==
    [][/\ (ConnectStep /\ db_messages = <<>>) =>
             /\ db_messages' = <<OpeningEntry>>
             /\ sent' = <<OpeningFrame>>
       /\ (ConnectStep /\ db_messages # <<>>) =>
             /\ db_messages' = db_messages
             /\ Len(sent') = 1
             /\ sent'[1].message = <<>>
             /\ sent'[1].resumed
       /\ ~(ConnectStep /\ db_messages = <<>>) =>
             /\ OpeningsIn(db_messages') = OpeningsIn(db_messages)
             /\ (\E i \in 1..Len(sent') : sent'[i] = OpeningFrame) =>
                   sent' = sent
       /\ db_messages # <<>> => db_messages' # <<>>
       /\ session_has_case => OpeningsIn(db_messages') <= 1]_vars

\* C14 witness: a consumer has reconnected to a session with persisted
\* candidate turns and got the acknowledgement
C14_Witness ==
    /\ session_has_case
    /\ connected
    /\ interviewer
    /\ sent = <<frame(<<>>, "system", session_phase, FALSE, TRUE)>>
    /\ OpeningsIn(db_messages) = 1
    /\ Len(db_messages) >= 3
    /\ turn_count >= 1

\* the client texts that validation rejects: longer than 5000 characters,
\* empty or whitespace only, or flagged by the injection heuristic
RejectedTexts ==
    {text \in ClientTexts :
        \/ Len(text) > 5000
        \/ \A i \in 1..Len(text) : text[i] \in {" ", "\t", "\n", "\r"}
        \/ detect_prompt_injection(sanitize_input(text, 5000))}

\* the frames of the session's client that hold a rejected text
RejectedFrames == {f \in SessionFrames : f[1] \in RejectedTexts}

\* C15: a step in which the consumer receives a rejected text leaves the persisted log, the persisted phase and status and the
\* agent's current_phase, turn_count, phase_turns, conversation_history and
\* exhibits_released unchanged, and sends one error frame.
C15_RejectedChangesNothing ==
    [][\A rejected \in RejectedFrames :
          receive(rejected[1], rejected[2], TRUE) =>
             /\ UNCHANGED <<db_messages, session_phase, session_status>>
             /\ UNCHANGED <<current_phase, turn_count, phase_turns,
                            conversation_history, exhibits_released>>
             /\ Len(sent') = 1
             /\ sent'[1].role = "system"
             /\ sent'[1].message # <<>>]_vars

\* C15 witness: after a processed candidate turn the consumer has rejected
\* a text flagged by the injection heuristic
C15_Witness ==
    /\ connected
    /\ interviewer
    /\ turn_count >= 1
    /\ Len(db_messages) = 3
    /\ sent = <<frame(<<"<warning sign> ", "Message blocked: ", "<reason>">>,
                      "system", "", FALSE, FALSE)>>

\* C16: in a session without a case the connect of a consumer sends the
\* setup error and constructs no agent; every step of the consumer leaves
\* it without an agent and the persisted phase unchanged, persists at most
\* the client's own frame and sends no interviewer frame.
C16_NoCaseNoTurns ==
    [][~session_has_case =>
          /\ ~interviewer'
          /\ agent_state' = agent_state
          /\ response' = NoResponse
          /\ (~connected /\ connected' /\ session_status # "completed") =>
                sent' = <<frame(<<"Error: Could not load case data. Please refresh and try again.">>,
                                "system", "", FALSE, FALSE)>>
          /\ (connected' # connected \/ db_messages' # db_messages
                \/ sent' # sent) => session_phase' = session_phase
          /\ \A i \in 1..Len(sent') : sent'[i].role # "interviewer"
          /\ \/ db_messages' = db_messages
             \/ /\ Len(sent') = 1
                /\ db_messages' =
                      Append(db_messages, [role |-> sent'[1].role,
                                           content |-> sent'[1].message])
                /\ \E f \in SessionFrames :
                      /\ sent'[1].role = f[2]
                      /\ sent'[1].message = sanitize_input(f[1], 5000)]_vars

\* C16 witness: the client of a session without a case has sent two
\* candidate messages and got no reply
C16_Witness ==
    /\ ~session_has_case
    /\ connected
    /\ ~interviewer
    /\ Len(db_messages) = 2
    /\ \A i \in 1..2 : db_messages[i].role = "user"
    /\ session_phase = SessionPhaseDefault
    /\ session_status = "in_progress"

\* the exhibits released to the candidate over the life of the session: the
\* persisted replies that show an exhibit
TotalReleases ==
    Cardinality({i \in 1..Len(db_messages) :
                    /\ db_messages[i].role = "assistant"
                    /\ db_messages[i].content[1] = "**"})

\* C17: every reconnect of a session in progress starts with
\* exhibits_released empty, whatever was released before, while the history
\* and the phase come back from the persisted log and phase.
C17_ReconnectForgetsReleases ==
    (connected /\ interviewer /\ db_messages # <<>> /\ response = NoResponse
        /\ sent # <<OpeningFrame>>) =>
       /\ exhibits_released = <<>>
       /\ Len(conversation_history) = Len(db_messages)
       /\ current_phase = session_phase

\* C17 witness: over releases, disconnects and reconnects the candidate has
\* been shown more than MAX_EXHIBITS = 3 exhibits, and index 0, released
\* before the last reconnect, has been released again after it
C17_Witness ==
    /\ TotalReleases > 3
    /\ TotalReleases > Len(case_data.exhibits)
    /\ connected
    /\ interviewer
    /\ exhibits_released = <<0>>
    /\ locals.exhibit_request
    /\ db_messages[Len(db_messages)].content[1] = "**"
    /\ \E i \in 1..(Len(db_messages) - 1) :
          db_messages[i] = db_messages[Len(db_messages)]

\* C18: on an exhibit-request turn in any phase before COMPLETED on which the
\* tracker returns exhausted and the policy decides not to transition,
\* current_phase moves to the next phase in sequence on that turn and
\* phase_turns of the new phase is 0.
C18_ForcedAdvance ==
    (/\ locals.exhibit_request
     /\ locals.phase # PHASE_COMPLETED
     /\ locals.all_exhibits_provided
     /\ ~locals.should_transition)
       => /\ current_phase = _get_next_phase(locals.phase)
          /\ phase_turns[current_phase] = 0

\* C19: after every exhibit-request turn on which the tracker returns
\* exhausted, in a phase before CONCLUSION, current_phase is the successor of
\* the phase the turn started in: forced when the policy decides not to
\* transition, the policy's own transition when it does.
C19_ExhaustionAlwaysAdvances ==
    (/\ locals.exhibit_request
     /\ locals.all_exhibits_provided
     /\ locals.phase \in {PHASE_FRAMEWORK, PHASE_DATA_ANALYSIS,
                          PHASE_RECOMMENDATION, PHASE_PUSHBACK})
       => current_phase = _get_next_phase(locals.phase)

\* the parts of C20 about the reply of the exhibit path and about the
\* returned completed flag, for the call that leads to the primed state
ExhibitPathReply ==
    /\ locals'.exhibit_request =>
          /\ response'.message
                = _handle_exhibit_request(case_data.exhibits,
                                          exhibits_released).text
          /\ response'.message \notin {GeneratedText, FallbackText}
          /\ ~response'.completed
          /\ current_phase' # PHASE_COMPLETED
    /\ response'.completed <=> response'.phase = PHASE_COMPLETED

\* C20: a message is answered through the exhibit path if and only if it
\* holds an exhibit-request keyword; on that path the reply is the tracker's
\* text, completed is false and the phase after the turn is not COMPLETED;
\* in every returned value completed is true iff the phase is COMPLETED.
C20_ExhibitPathIffKeyword ==
    [][/\ locals'.exhibit_request <=> HoldsExhibitKeyword(locals'.message)
       /\ ExhibitPathReply]_vars

\* C20 as amended: in a session that is not COMPLETED a message is answered
\* through the exhibit path if and only if it holds an exhibit-request
\* keyword, and in a COMPLETED session no message is; the rest as in C20.
C20_ExhibitPathUnlessCompleted ==
    [][/\ locals'.exhibit_request
            <=> (/\ current_phase # PHASE_COMPLETED
                 /\ HoldsExhibitKeyword(locals'.message))
       /\ ExhibitPathReply]_vars

\* C20 witness: an exhibit request in CONCLUSION, the exhibits exhausted and
\* the policy below its floor, has been answered with the tracker's text and
\* has left the session in CONCLUSION, not completed
C20_Witness ==
    /\ locals.exhibit_request
    /\ HoldsExhibitKeyword(locals.message)
    /\ locals.phase = PHASE_CONCLUSION
    /\ locals.all_exhibits_provided
    /\ ~locals.should_transition
    /\ response.message = AllProvidedText
    /\ response.phase = PHASE_CONCLUSION
    /\ ~response.completed
    /\ current_phase = PHASE_CONCLUSION

\* C21: every call made while current_phase is not COMPLETED adds 1 to
\* turn_count and appends two entries to conversation_history, the candidate
\* message and then the reply it returns, leaving the earlier entries as they
\* were; on a fresh machine the history has length 2 * turn_count and
\* alternates candidate, interviewer.
C21_TurnAppendsPair ==
    [][current_phase # PHASE_COMPLETED =>
         LET n == Len(conversation_history)
         IN /\ turn_count' = turn_count + 1
            /\ Len(conversation_history') = n + 2
            /\ SubSeq(conversation_history', 1, n) = conversation_history
            /\ conversation_history'[n + 1]
                 = [role |-> "candidate", content |-> locals'.message]
            /\ conversation_history'[n + 2]
                 = [role |-> "interviewer", content |-> response'.message]
            /\ Len(conversation_history') = 2 * turn_count'
            /\ \A i \in 1..(n + 2) :
                  conversation_history'[i].role
                    = IF i % 2 = 1 THEN "candidate" ELSE "interviewer"]_vars

\* C21 witness: an exhibit turn, a generated reply and a fallback reply have
\* each appended their pair
C21_Witness ==
    /\ turn_count = 3
    /\ Len(conversation_history) = 6
    /\ conversation_history[2].content \notin {GeneratedText, FallbackText}
    /\ conversation_history[4].content = GeneratedText
    /\ conversation_history[6].content = FallbackText
    /\ current_phase # PHASE_COMPLETED

\* phase_turns of a phase, 0 for a key the dict does not hold yet
turns_in(turns, phase) == IF phase \in DOMAIN turns THEN turns[phase] ELSE 0

\* C22: on a fresh machine every call made in a phase other than COMPLETED
\* adds exactly 1 to phase_turns of the phase the call started in, enters a
\* new phase with phase_turns 0 and changes phase_turns of no other phase;
\* so the phases not yet entered count 0, the counts of all phases add up to
\* turn_count, and phase_turns[current_phase] is the number of turns
\* processed since the phase was entered.
C22_PhaseTurnsCountTurns ==
    [][/\ current_phase # PHASE_COMPLETED =>
            /\ turns_in(phase_turns', current_phase)
                 = turns_in(phase_turns, current_phase) + 1
            /\ current_phase' # current_phase =>
                  turns_in(phase_turns', current_phase') = 0
            /\ \A i \in 1..Len(PhaseChain) :
                  PhaseChain[i] # current_phase =>
                     turns_in(phase_turns', PhaseChain[i])
                       = turns_in(phase_turns, PhaseChain[i])
       /\ current_phase = PHASE_COMPLETED => phase_turns' = phase_turns
       /\ \A i \in 1..Len(PhaseChain) :
             i > PhaseRank(current_phase') =>
                turns_in(phase_turns', PhaseChain[i]) = 0
       /\ turn_count'
            = turns_in(phase_turns', PHASE_FRAMEWORK)
              + turns_in(phase_turns', PHASE_DATA_ANALYSIS)
              + turns_in(phase_turns', PHASE_RECOMMENDATION)
              + turns_in(phase_turns', PHASE_PUSHBACK)
              + turns_in(phase_turns', PHASE_CONCLUSION)
              + turns_in(phase_turns', PHASE_COMPLETED)]_vars

\* C22 witness: FRAMEWORK was left by a forced advance on its first turn,
\* DATA_ANALYSIS by a keyword on its second, and the third turn in
\* RECOMMENDATION is being counted
C22_Witness ==
    /\ phase_turns[PHASE_FRAMEWORK] = 1
    /\ phase_turns[PHASE_DATA_ANALYSIS] = 2
    /\ current_phase = PHASE_RECOMMENDATION
    /\ phase_turns[PHASE_RECOMMENDATION] = 3
    /\ turn_count = 6

\* C23: with one connection at a time and a client that sends 'user'
\* messages only, as long as the session is not completed the agent of the
\* connected consumer, whether it has lived through every turn or has been
\* rehydrated by a reconnect, has the persisted phase marker as its
\* current_phase and the number of persisted 'user' messages as its
\* turn_count: a reconnect gives back the phase and turn count of the agent
\* that was dropped.
C23_NoProgressLost ==
    (connected /\ interviewer /\ session_status # "completed") =>
       /\ current_phase = session_phase
       /\ turn_count = Len(SelectSeq(db_messages, LAMBDA m : m.role = "user"))

\* C23 witness: a consumer that reconnected after three exhibit turns has
\* restored PUSHBACK and turn_count 3
C23_Witness ==
    /\ connected
    /\ interviewer
    /\ session_status # "completed"
    /\ Len(sent) = 1
    /\ sent[1].resumed
    /\ turn_count = 3
    /\ current_phase = PHASE_PUSHBACK
    /\ session_phase = PHASE_PUSHBACK

\* the candidate turns of the session so far: the persisted 'user' messages
SessionTurns == Len(SelectSeq(db_messages, LAMBDA m : m.role = "user"))

\* C24: over turns, disconnects and reconnects, a transition decided by the
\* policy out of a phase happens only after at least two candidate turns
\* have been processed while the session was in that phase.  Leaving each of
\* the phases before it took at least one turn, so the turns processed in
\* the phase, the one being processed included, are at most the turns of
\* the session less one for each earlier phase, and that number is at least
\* 2 whenever the policy's transition is applied.
C24_FloorAcrossReconnects ==
    (/\ connected
     /\ locals # NoLocals
     /\ ~locals.exhibit_request
     /\ locals.should_transition
     /\ current_phase # locals.phase)
       => SessionTurns - (PhaseRank(locals.phase) - 1) >= 2

\* C25: each of two consumers of one session works on its own agent, and
\* the consumer that handles a candidate turn persists the phase of its own
\* agent, whatever the phase marker held.
C25_UnfencedPhaseWrites ==
    [][Len(db_messages') = Len(db_messages) + 2 =>
          /\ session_phase' = current_phase'
          /\ session_phase' = response'.phase
          /\ [peer' EXCEPT !.sent = peer.sent] = peer]_vars

\* C25 witness: the second consumer, after a turn of its own, holds and has
\* persisted a phase later in the chain than the phase the first consumer
\* has just written over it
C25_Witness ==
    /\ connected
    /\ interviewer
    /\ peer.connected
    /\ peer.interviewer
    /\ peer.locals # NoLocals
    /\ peer.response.phase = peer.current_phase
    /\ locals # NoLocals
    /\ response.phase = current_phase
    /\ session_phase = current_phase
    /\ db_messages[Len(db_messages)].content = response.message
    /\ PhaseRank(session_phase) < PhaseRank(peer.current_phase)

\* C26: in every persisted state the phase marker is 'completed' if and
\* only if the status of the session is 'completed'.
C26_CompletedTogether ==
    session_phase = "completed" <=> session_status = "completed"

\* a consumer connects to the session
ConnectHandled == ~connected /\ connected'

MachineTexts ==
    {get_opening_message(interview_mode), GeneratedText, FallbackText,
     ConcludedText}
       \cup {_handle_exhibit_request(case_data.exhibits,
                                     [i \in 1..n |-> i - 1]).text :
                n \in 0..Len(case_data.exhibits)}

\* C28: every message persisted with role 'assistant', and every
\* interviewer entry of the conversation_history of a consumer's agent, is a
\* text produced by the state machine.
C28_TranscriptIntegrity ==
    /\ \A i \in 1..Len(db_messages) :
          db_messages[i].role = "assistant" =>
             db_messages[i].content \in MachineTexts
    /\ \A i \in 1..Len(conversation_history) :
          conversation_history[i].role = "interviewer" =>
             conversation_history[i].content \in MachineTexts

\* C29: the text validate_message accepts is never empty: every message
\* persisted as the candidate's, and every candidate entry of the agent's
\* conversation_history, is a non-empty text.
C29_NoEmptyTurn ==
    /\ \A i \in 1..Len(db_messages) :
          db_messages[i].role = "user" => db_messages[i].content # <<>>
    /\ \A i \in 1..Len(conversation_history) :
          conversation_history[i].role = "candidate" =>
             conversation_history[i].content # <<>>

\* no candidate message processed so far was an exhibit request
NoExhibitAsked ==
    \A i \in 1..Len(conversation_history) :
       conversation_history[i].role = "candidate" =>
          ~_is_exhibit_request(conversation_history[i].content)

C30_Shortest ==
    /\ current_phase = PHASE_COMPLETED
    /\ turn_count = 10

====
